---------------------------- MODULE Spec2Model ----------------------------
(***************************************************************************)
(* A model of the embed virtual machine (src/embed.rs): the VM structure,  *)
(* its constructor, reset, trace, load, save, and the execution loop of    *)
(* run, one action per instruction family.                                 *)
(*                                                                         *)
(* Representation.  The core is an array of CORE_SIZE 16-bit cells.  It is *)
(* held as a function from the indices of its NON-ZERO cells to their      *)
(* values; every index outside the function's domain holds 0.  The         *)
(* representation is canonical (a cell that becomes 0 leaves the domain),  *)
(* so equality of two cores is equality of the two functions.  Byte        *)
(* streams (files, sinks) are held the same way: a length and the non-zero *)
(* bytes.                                                                  *)
(*                                                                         *)
(* Host faults.  An index outside the core, a failing unwrap and a signed  *)
(* division overflow abort the process (ctl = "panic").  An overflowing    *)
(* `+= 1` / `-= 1` / `- 1` and a shift by 16 or more abort in a build with *)
(* overflow checks and wrap in a build without; `profile` records which    *)
(* build the run has shown itself to be, and is undetermined ("any") until *)
(* the first such operation.                                               *)
(*                                                                         *)
(* The second VM.  `twin` is a VM constructed beside the first and given   *)
(* every call the first is given, except that its trace flag is always the *)
(* opposite; its run goes through the same instruction cycle under the     *)
(* same doings of the environment.  It is there to compare a traced run    *)
(* with an untraced one.                                                   *)
(***************************************************************************)
EXTENDS Integers, Sequences, FiniteSets, TLC

CORE_SIZE == 32768
SP0 == 8704
RP0 == 32767

\* Bounds of the model: the iterations of one run, the calls of run (with
\* the loads before them) and of load, the bytes of a short file, the cells
\* of the bundled image.
MaxCycles == 6
MaxRuns   == 2
MaxLoads  == 1
MaxStream == 3
ImageLen  == 2

U16 == 65536

------------------------------------------------------------------------------
\* 16-bit words

RECURSIVE Bitwise(_, _, _, _)
Bitwise(op, a, b, k) ==
    IF k = 0 THEN 0
    ELSE LET x == a % 2
             y == b % 2
             bit == CASE op = "and" -> IF x = 1 /\ y = 1 THEN 1 ELSE 0
                      [] op = "or"  -> IF x = 1 \/ y = 1 THEN 1 ELSE 0
                      [] op = "xor" -> IF x # y THEN 1 ELSE 0
         IN  bit + 2 * Bitwise(op, a \div 2, b \div 2, k - 1)

BitAnd(a, b) == Bitwise("and", a, b, 16)
BitOr(a, b)  == Bitwise("or", a, b, 16)
BitXor(a, b) == Bitwise("xor", a, b, 16)
BitNot(a)    == 65535 - a

RECURSIVE Pow2(_)
Pow2(k) == IF k = 0 THEN 1 ELSE 2 * Pow2(k - 1)

\* u16 shifts by an amount below 16
Shr(a, k) == a \div Pow2(k)
Shl(a, k) == (a * Pow2(k)) % U16

\* `x as i16` and `i as u16`
AsI16(x) == IF x >= 32768 THEN x - U16 ELSE x
AsU16(i) == i % U16

Abs(i) == IF i < 0 THEN 0 - i ELSE i
\* Rust's `/` and `%` on signed integers truncate toward zero.
TruncDiv(a, b) == IF (a < 0) = (b < 0) THEN Abs(a) \div Abs(b)
                  ELSE 0 - (Abs(a) \div Abs(b))
TruncRem(a, b) == a - b * TruncDiv(a, b)

------------------------------------------------------------------------------
\* The core: [u16; CORE_SIZE], as the function of its non-zero cells.

InCore(a) == a >= 0 /\ a < CORE_SIZE

Cell(c, a) == IF a \in DOMAIN c THEN c[a] ELSE 0

Store(c, a, v) ==
    IF v = 0 THEN [x \in (DOMAIN c) \ {a} |-> c[x]]
    ELSE [x \in (DOMAIN c) \cup {a} |-> IF x = a THEN v ELSE c[x]]

ZeroCore == [x \in {} |-> 0]

\* dst[i] = src[i] for i < len(src): a slice (1-based sequence) copied over
\* the first cells of a core.
CopyInto(c, src) ==
    LET keep == {x \in DOMAIN c : x >= Len(src)}
        put  == {x \in 0..(Len(src) - 1) : src[x + 1] # 0}
    IN  [x \in keep \cup put |-> IF x < Len(src) THEN src[x + 1] ELSE c[x]]


------------------------------------------------------------------------------
\* Byte streams.  A stream holds `len` bytes; `data` maps the positions of
\* its non-zero bytes to their values.

NoData == [p \in {} |-> 0]

ByteAt(s, p) == IF p \in DOMAIN s.data THEN s.data[p] ELSE 0

PutByte(data, p, b) ==
    IF b = 0 THEN data
    ELSE [q \in (DOMAIN data) \cup {p} |-> IF q = p THEN b ELSE data[q]]

\* A reader over the bytes of a file, positioned at its start.
FileReader(len, data) == [kind |-> "file", len |-> len, data |-> data, pos |-> 0]
\* An interactive reader (stdin): what the next read yields is up to the
\* environment; `got` is what the last read yielded.
TtyReader == [kind |-> "tty", got |-> 0]
NoReader  == [kind |-> "none"]

InBytes == {65}

\* One `input.read(&mut u)` of a one-byte buffer: the outcomes the reader can
\* produce, each with the reader's next state.
ReadOne(r) ==
    IF r.kind = "file"
    THEN IF r.pos < r.len
         THEN {[res |-> "ok", byte |-> ByteAt(r, r.pos),
                rd |-> [r EXCEPT !.pos = r.pos + 1]]}
         ELSE {[res |-> "eof", byte |-> 0, rd |-> r]}
    ELSE {[res |-> "ok", byte |-> b, rd |-> [r EXCEPT !.got = b]] : b \in InBytes}
         \cup {[res |-> "eof", byte |-> 0, rd |-> [r EXCEPT !.got = 65535]],
               [res |-> "err", byte |-> 0, rd |-> r]}

\* fgetc: the byte read, 0xffff when the read returned no byte; the unwrap
\* aborts the process on an I/O error.
fgetc(r) ==
    {[fault |-> o.res = "err", res |-> o.res,
      val   |-> IF o.res = "ok" THEN o.byte ELSE 65535,
      rd    |-> o.rd] : o \in ReadOne(r)}

\* A sink.  A file sink accepts bytes up to its capacity `cap` (-1: no
\* limit); an interactive sink (stdout) accepts, refuses or fails each write
\* as the environment decides.
Unlimited == 0 - 1
FileSink(cap) == [kind |-> "file", len |-> 0, data |-> NoData, cap |-> cap]
TtySink       == [kind |-> "tty", len |-> 0, data |-> NoData, cap |-> Unlimited]
NoSink        == [kind |-> "none", len |-> 0, data |-> NoData, cap |-> Unlimited]

\* The number of further bytes a capped sink takes.
Room(s) == s.cap - s.len

\* One `output.write(&u)` of a one-byte buffer.
WriteOne(s, b) ==
    LET took == [res |-> "ok", n |-> 1,
                 snk |-> [s EXCEPT !.len = s.len + 1,
                                   !.data = PutByte(s.data, s.len, b)]]
        none == [res |-> "none", n |-> 0, snk |-> s]
        err  == [res |-> "err", n |-> 0, snk |-> s]
    IN  IF s.kind = "tty" THEN {took, none, err}
        ELSE IF s.cap = Unlimited \/ Room(s) >= 1 THEN {took} ELSE {err}

\* fputc: the byte written, 0xffff when the write took no byte; the unwrap
\* aborts the process on an I/O error.
fputc(s, b) ==
    {[fault |-> o.res = "err", res |-> o.res,
      val   |-> IF o.n = 1 THEN b ELSE 65535,
      snk   |-> o.snk] : o \in WriteOne(s, b)}

\* Hi, shifting by a nibble
Hi_nibble(w) == Shr(w, 4) % 256

\* `core[i] as u8` and `(core[i] >> 8) as u8`
Lo(w) == w % 256
Hi(w) == Shr(w, 8) % 256

Min(a, b) == IF a <= b THEN a ELSE b

------------------------------------------------------------------------------
\* Block save and the image codec

\* save_block, with `length` a count of cells
save_block_count(core, sink, start, length) ==
    IF start + length > 65535
    THEN [ret |-> "none", val |-> 0, snk |-> sink]
    ELSE
    LET ncells == length
        oobAt  == IF start >= CORE_SIZE THEN 0 ELSE CORE_SIZE - start
        done   == Min(ncells, oobAt)
        cells  == {i \in DOMAIN core : i >= start /\ i - start < done}
        data   == [q \in UNION {{2 * (i - start), 2 * (i - start) + 1} : i \in cells} |->
                      IF q % 2 = 0 THEN core[start + (q \div 2)] % 256
                      ELSE core[start + (q \div 2)] \div 256]
    IN  [ret |-> IF done = ncells THEN "some" ELSE "fault",
         val |-> 0,
         snk |-> [sink EXCEPT !.len = 2 * done,
                              !.data = [q \in {x \in DOMAIN data : data[x] # 0} |-> data[q]]]]

\* save_block: `for i in start..length`, each cell written low byte first
\* by one two-byte write whose count is not looked at.  A capped sink takes
\* whole cells while it has room for them (`full`), then one byte of the next
\* cell if it has room for one (`part`), and fails the write after that.
\* The loop ends at the first of: the end of the range (Some(0)), an index
\* outside the core (host fault; the cell is read before it is written), a
\* failed write (None).  `ret` is "some" (Some(val)), "none" or "fault".
save_block(core, sink, start, length) ==
    IF start + length > 65535
    THEN [ret |-> "none", val |-> 0, snk |-> sink]
    ELSE
    LET ncells == IF length > start THEN length - start ELSE 0
        oobAt  == IF start >= CORE_SIZE THEN 0 ELSE CORE_SIZE - start
        capped == sink.cap # Unlimited
        full   == IF capped THEN Room(sink) \div 2 ELSE ncells
        part   == IF capped THEN Room(sink) % 2 ELSE 0
        errAt  == IF capped THEN full + part ELSE ncells
        done   == Min(ncells, Min(oobAt, errAt))
        whole  == Min(done, full)
        nbytes == 2 * whole + (IF done > full THEN 1 ELSE 0)
        cells  == {i \in DOMAIN core : i >= start /\ i - start < done}
        los    == {sink.len + 2 * (i - start) : i \in {j \in cells : Lo(core[j]) # 0}}
        his    == {sink.len + 2 * (i - start) + 1 :
                      i \in {j \in cells : j - start < whole /\ Hi(core[j]) # 0}}
        data   == [q \in (DOMAIN sink.data) \cup los \cup his |->
                      IF q < sink.len THEN sink.data[q]
                      ELSE LET i == start + ((q - sink.len) \div 2)
                           IN  IF (q - sink.len) % 2 = 0 THEN Lo(core[i])
                               ELSE Hi(core[i])]
    IN  [ret |-> IF done = ncells THEN "some"
                 ELSE IF oobAt <= errAt THEN "fault" ELSE "none",
         val |-> 0,
         snk |-> [sink EXCEPT !.len = sink.len + nbytes, !.data = data]]

\* The capacities a block file created by opcode 22 may turn out to have.
BlockCaps == {Unlimited, 0}

\* save_file: 0xffff without a block name, when the file cannot be created
\* and when save_block returns None; else what save_block returns.  The set
\* of outcomes: whether the file could be created and how much it takes is
\* the environment's choice.  `file` is the file as left behind (`old` when
\* none was created), `res` the environment's part in the outcome.
save_file(core, named, old, start, length) ==
    IF ~named THEN {[val |-> 65535, fault |-> FALSE, file |-> old, res |-> "unnamed"]}
    ELSE {[val |-> 65535, fault |-> FALSE, file |-> old, res |-> "refused"]}
         \cup {LET r == save_block(core, FileSink(cap), start, length)
               IN  [val   |-> IF r.ret = "some" THEN r.val ELSE 65535,
                    fault |-> r.ret = "fault",
                    res   |-> IF cap = Unlimited THEN "roomy" ELSE "full",
                    file  |-> r.snk] : cap \in BlockCaps}

\* The reader `r` after `k` successful one-byte reads.
Advance(r, k) == [r EXCEPT !.pos = r.pos + k]
FirstOf(S) == CHOOSE o \in S : TRUE

\* load's loop, iteration i, started with reader r: the two values fgetc
\* returns (the reader is a file: one outcome each; hi is read, one byte
\* further, only after lo was), whether the loop returns there, and the cell
\* stored if it does not.
LoadLo(r, i)   == FirstOf(fgetc(Advance(r, 2 * i)))
LoadHi(r, i)   == FirstOf(fgetc(Advance(r, 2 * i + 1)))
\* LoadStops, looking at lo only
LoadStops_lo_only(r, i) ==
    i >= CORE_SIZE \/ LoadLo(r, i).val = 65535

LoadStops(r, i) ==
    i >= CORE_SIZE \/ LoadLo(r, i).val = 65535 \/ LoadHi(r, i).val = 65535
LoadCell(r, i) == BitOr(LoadLo(r, i).val, Shl(LoadHi(r, i).val, 8))

\* The value of i when load returns: the first iteration that stops.
LoadCount(r) ==
    CHOOSE k \in 0..CORE_SIZE :
        LoadStops(r, k) /\ \A j \in 0..(k - 1) : ~LoadStops(r, j)

\* The core after load returned n: cells below the count are overwritten.
LoadCore(core, r, n) ==
    LET keep == {x \in DOMAIN core : x >= n}
        put  == {x \in {(p - r.pos) \div 2 : p \in {q \in DOMAIN r.data : q >= r.pos}} :
                    x < n /\ LoadCell(r, x) # 0}
    IN  [x \in keep \cup put |-> IF x < n THEN LoadCell(r, x) ELSE core[x]]

------------------------------------------------------------------------------
\* The virtual machine

VARIABLES
    self,       \* the VM: tracing, count, pc, rp, sp, t, core
    pc, rp, sp, t, m,   \* run's locals: the registers and its copy of the core
    ctl,        \* "idle": between calls; "run": inside run's loop; "panic": the process aborted
    ret,        \* the last call of the VM's interface that returned, and its value
    cycles,     \* iterations of run's loop begun in the current run
    runs,       \* calls of run so far
    loads,      \* calls of load so far
    prev,       \* the state the latest iteration started from (what csv is handed), with the core
    program,    \* the slice tests::core has copied into the core, << >> before
    block,      \* run's `block` argument: "none", "some", or "unread" until opcode 22 reads it
    input,      \* the reader handed to run or load
    output,     \* the sink handed to run
    blockfile,  \* the file opcode 22 created last
    image,      \* the sink handed to save
    saved,      \* the core as it was when save was called
    stderr,     \* the trace records written
    profile,    \* "checked" / "wrapping" arithmetic, "any" while the run has not shown which
    twin        \* a second VM, given the same calls with the opposite trace flag

vars == <<self, pc, rp, sp, t, m, ctl, ret, cycles, runs, loads, prev, program, block,
          input, output, blockfile, image, saved, stderr, profile, twin>>

\* The bundled image (eforth.rs is not among the sources): an opaque blob of
\* ImageLen cells.
BYE == 31488
ADD == 25891
DEC == 27392
DefaultImages == {[k \in 1..ImageLen |-> c] : c \in {0, BYE}}

NoPrev == [pc |-> 0, inst |-> 0, t |-> 0, sp |-> 0, rp |-> 0, m |-> ZeroCore]
\* A call's return: `some` is FALSE for an Option that is None.
Ret(fn, val) == [fn |-> fn, some |-> TRUE, val |-> val]
RetNone(fn)  == [fn |-> fn, some |-> FALSE, val |-> 0]

\* VM::new
New(EFORTH_CORE) ==
    [tracing |-> FALSE, count |-> 0, pc |-> 0, rp |-> RP0, sp |-> SP0, t |-> 0,
     core |-> CopyInto(ZeroCore, EFORTH_CORE)]

Init ==
    /\ \E img \in DefaultImages : self = New(img)
    /\ pc = 0 /\ rp = 0 /\ sp = 0 /\ t = 0 /\ m = ZeroCore
    /\ ctl = "idle"
    /\ ret = Ret("new", 0)
    /\ cycles = 0
    /\ runs = 0
    /\ loads = 0
    /\ prev = NoPrev
    /\ program = << >>
    /\ block = "unread"
    /\ input = NoReader
    /\ output = NoSink
    /\ blockfile = NoSink
    /\ image = NoSink
    /\ saved = ZeroCore
    /\ stderr = << >>
    /\ profile = "any"
    /\ twin = [vm |-> [self EXCEPT !.tracing = TRUE],
               pc |-> 0, rp |-> 0, sp |-> 0, t |-> 0, m |-> ZeroCore,
               ctl |-> "idle", ret |-> Ret("new", 0),
               input |-> NoReader, output |-> NoSink, blockfile |-> NoSink,
               stderr |-> << >>]

\* VM::reset
\* ResetRegs, leaving t
ResetRegs_keeps_t(vm) == [vm EXCEPT !.pc = 0, !.rp = RP0, !.sp = SP0]

ResetRegs(vm) == [vm EXCEPT !.pc = 0, !.rp = RP0, !.sp = SP0, !.t = 0]

Reset ==
    /\ ctl = "idle"
    /\ self' = ResetRegs(self)
    /\ twin' = [twin EXCEPT !.vm = ResetRegs(twin.vm)]
    /\ UNCHANGED <<pc, rp, sp, t, m, ctl, ret, cycles, runs, loads, prev, program, block,
                   input, output, blockfile, image, saved, stderr, profile>>

\* VM::trace
Trace(state) ==
    /\ ctl = "idle"
    /\ self.tracing # state
    /\ self' = [self EXCEPT !.tracing = state]
    /\ twin' = [twin EXCEPT !.vm.tracing = ~state]
    /\ UNCHANGED <<pc, rp, sp, t, m, ctl, ret, cycles, runs, loads, prev, program, block,
                   input, output, blockfile, image, saved, stderr, profile>>

\* tests::core(&mut vm.core, src), as tests::expect calls it before a run
Install(src) ==
    /\ ctl = "idle"
    /\ program = << >>
    /\ runs = 0
    /\ program' = src
    /\ self' = [self EXCEPT !.core = CopyInto(self.core, src)]
    /\ ret' = Ret("core", 0)
    /\ twin' = [twin EXCEPT !.vm.core = CopyInto(twin.vm.core, src), !.ret = Ret("core", 0)]
    /\ UNCHANGED <<pc, rp, sp, t, m, ctl, cycles, runs, loads, prev, block,
                   input, output, blockfile, image, saved, stderr, profile>>

\* VM::save
Save(cap) ==
    /\ ctl = "idle"
    /\ image = NoSink
    /\ LET r == save_block(self.core, FileSink(cap), 0, CORE_SIZE % U16)
       IN  /\ image' = r.snk
           /\ ctl' = IF r.ret = "fault" THEN "panic" ELSE "idle"
           /\ ret' = IF r.ret = "some" THEN Ret("save", r.val) ELSE RetNone("save")
    /\ saved' = self.core
    /\ LET r == save_block(twin.vm.core, FileSink(cap), 0, CORE_SIZE % U16)
       IN  twin' = [twin EXCEPT
                      !.ctl = IF r.ret = "fault" THEN "panic" ELSE "idle",
                      !.ret = IF r.ret = "some" THEN Ret("save", r.val) ELSE RetNone("save")]
    /\ UNCHANGED <<self, pc, rp, sp, t, m, cycles, runs, loads, prev, program, block,
                   input, output, blockfile, stderr, profile>>

\* What a call save_block(sink of capacity cap, start, length) left behind:
\* its arguments with its return (`some` is FALSE also when it never returned).
RetBlock(r, cap, start, length) ==
    [fn |-> "save_block", some |-> r.ret = "some", val |-> r.val,
     cap |-> cap, start |-> start, length |-> length]

\* VM::save_block, on a new sink
SaveBlock(cap, start, length) ==
    /\ ctl = "idle"
    /\ blockfile = NoSink
    /\ LET r == save_block(self.core, FileSink(cap), start, length)
       IN  /\ blockfile' = r.snk
           /\ ctl' = IF r.ret = "fault" THEN "panic" ELSE "idle"
           /\ ret' = RetBlock(r, cap, start, length)
    /\ LET r == save_block(twin.vm.core, FileSink(cap), start, length)
       IN  twin' = [twin EXCEPT
                      !.blockfile = r.snk,
                      !.ctl = IF r.ret = "fault" THEN "panic" ELSE "idle",
                      !.ret = RetBlock(r, cap, start, length)]
    /\ UNCHANGED <<self, pc, rp, sp, t, m, cycles, runs, loads, prev, program, block,
                   input, output, image, saved, stderr, profile>>

\* VM::load, from a file
Load(len, data) ==
    /\ ctl = "idle"
    /\ loads < MaxLoads
    /\ loads' = loads + 1
    /\ \E r \in {FileReader(len, data)} : \E n \in {LoadCount(r)} :
           /\ self' = [ResetRegs(self) EXCEPT !.core = LoadCore(self.core, r, n)]
           /\ input' = [r EXCEPT !.pos = IF n < CORE_SIZE THEN r.len ELSE 2 * n]
           /\ ret' = Ret("load", n)
           /\ twin' = [twin EXCEPT
                          !.vm = [ResetRegs(twin.vm) EXCEPT !.core = LoadCore(twin.vm.core, r, n)],
                          !.input = [r EXCEPT !.pos = IF n < CORE_SIZE THEN r.len ELSE 2 * n],
                          !.ret = Ret("load", n)]
    /\ UNCHANGED <<pc, rp, sp, t, m, ctl, cycles, runs, prev, program, block,
                   output, blockfile, image, saved, stderr, profile>>

------------------------------------------------------------------------------
\* run: the instruction cycle

DELTA == <<0, 1, 65534, 65535>>

\* inst & mask == mask, for a mask of one bit
HasBit(inst, mask) == (inst \div mask) % 2 = 1
\* inst & 0xe000, as the number in its three bits
Family(inst) == inst \div 8192

\* The result of a u16 `+`, `-` whose mathematical value is v, and of a shift
\* (over = the shift amount is 16 or more, v = the masked shift's result):
\* the value, or the abort of a build with overflow checks.
Checked(v, over, prof) ==
    IF ~over
    THEN {[v |-> v, fault |-> FALSE, profile |-> prof]}
    ELSE (IF prof \in {"any", "checked"}
          THEN {[v |-> v % U16, fault |-> TRUE, profile |-> "checked"]} ELSE {})
         \cup
         (IF prof \in {"any", "wrapping"}
          THEN {[v |-> v % U16, fault |-> FALSE, profile |-> "wrapping"]} ELSE {})

Inc(x, prof) == Checked(x + 1, x + 1 > 65535, prof)
Dec(x, prof) == Checked(x - 1, x - 1 < 0, prof)

\* The locals of run, with what the cycle may touch outside them.  n and tp
\* are the ALU branch's; core is the VM's own (self.core, which save_file
\* reads); fault: the cycle aborted the process; halt: it left the loop; env:
\* what the environment did to the cycle's file, read or write.
Cur ==
    [pc |-> pc, rp |-> rp, sp |-> sp, t |-> t, m |-> m, n |-> 0, tp |-> 0,
     input |-> input, output |-> output, blockfile |-> blockfile,
     block |-> block, profile |-> profile, core |-> self.core,
     fault |-> FALSE, halt |-> FALSE, env |-> "idle"]
\* The same for the second VM, run by the same build with the same `block`.
TwinCur ==
    [pc |-> twin.pc, rp |-> twin.rp, sp |-> twin.sp, t |-> twin.t, m |-> twin.m,
     n |-> 0, tp |-> 0,
     input |-> twin.input, output |-> twin.output, blockfile |-> twin.blockfile,
     block |-> block, profile |-> profile, core |-> twin.vm.core,
     fault |-> FALSE, halt |-> FALSE, env |-> "idle"]

Fault(c) == [c EXCEPT !.fault = TRUE]

\* literal, with the instruction's top bit left in t
literal_unmasked(inst, c) ==
    {IF a.fault \/ ~InCore(a.v)
     THEN [c EXCEPT !.fault = TRUE, !.profile = a.profile]
     ELSE [c EXCEPT !.sp = a.v, !.m = Store(c.m, a.v, c.t), !.t = inst,
                    !.pc = c.pc + 1, !.profile = a.profile]
       : a \in Inc(c.sp, c.profile)}

\* sp += 1; m[sp] = t; t = instruction & 0x7fff; pc += 1
literal(inst, c) ==
    {IF a.fault \/ ~InCore(a.v)
     THEN [c EXCEPT !.fault = TRUE, !.profile = a.profile]
     ELSE [c EXCEPT !.sp = a.v, !.m = Store(c.m, a.v, c.t), !.t = inst % 32768,
                    !.pc = c.pc + 1, !.profile = a.profile]
       : a \in Inc(c.sp, c.profile)}

\* call, pushing the cell address of the next instruction
call_unshifted(inst, c) ==
    {IF a.fault \/ ~InCore(a.v)
     THEN [c EXCEPT !.fault = TRUE, !.profile = a.profile]
     ELSE [c EXCEPT !.rp = a.v, !.m = Store(c.m, a.v, c.pc + 1),
                    !.pc = inst % 8192, !.profile = a.profile]
       : a \in Dec(c.rp, c.profile)}

\* rp -= 1; m[rp] = (pc + 1) << 1; pc = instruction & 0x1fff
call(inst, c) ==
    {IF a.fault \/ ~InCore(a.v)
     THEN [c EXCEPT !.fault = TRUE, !.profile = a.profile]
     ELSE [c EXCEPT !.rp = a.v, !.m = Store(c.m, a.v, Shl(c.pc + 1, 1)),
                    !.pc = inst % 8192, !.profile = a.profile]
       : a \in Dec(c.rp, c.profile)}

\* zbranch, popping only when the branch is taken
zbranch_pop_if_taken(inst, c) ==
    IF ~InCore(c.sp) THEN {Fault(c)}
    ELSE IF c.t # 0 THEN {[c EXCEPT !.pc = c.pc + 1]}
    ELSE {IF a.fault
          THEN [c EXCEPT !.fault = TRUE, !.profile = a.profile]
          ELSE [c EXCEPT !.pc = inst % 8192,
                         !.t = Cell(c.m, c.sp), !.sp = a.v, !.profile = a.profile]
            : a \in Dec(c.sp, c.profile)}

\* pc = if t == 0 { instruction & 0x1fff } else { pc + 1 }; t = m[sp]; sp -= 1
zbranch(inst, c) ==
    IF ~InCore(c.sp) THEN {Fault(c)}
    ELSE {IF a.fault
          THEN [c EXCEPT !.fault = TRUE, !.profile = a.profile]
          ELSE [c EXCEPT !.pc = IF c.t = 0 THEN inst % 8192 ELSE c.pc + 1,
                         !.t = Cell(c.m, c.sp), !.sp = a.v, !.profile = a.profile]
            : a \in Dec(c.sp, c.profile)}

\* pc = instruction & 0x1fff
branch(inst, c) == {[c EXCEPT !.pc = inst % 8192]}

\* alu_add, with n left as it was read
alu_add_stale_n(c) ==
    LET d == c.t + c.n
    IN  [c EXCEPT !.tp = d \div U16, !.m = Store(c.m, c.sp, d % U16)]

\* 5 => d = t + n (u32); tp = d >> 16; m[sp] = d as u16; n = d as u16
alu_add(c) ==
    LET d == c.t + c.n
    IN  [c EXCEPT !.tp = d \div U16, !.m = Store(c.m, c.sp, d % U16), !.n = d % U16]

\* 6 => the same with d = t * n
alu_mul(c) ==
    LET d == c.t * c.n
    IN  [c EXCEPT !.tp = d \div U16, !.m = Store(c.m, c.sp, d % U16), !.n = d % U16]

\* alu_dec, stopping at 0
alu_dec_saturating(c) == [c EXCEPT !.tp = IF c.tp = 0 THEN 0 ELSE c.tp - 1]

\* 11 => tp = tp.wrapping_sub(1)
alu_dec(c) == [c EXCEPT !.tp = (c.tp - 1) % U16]

\* alu_divmod, dividing by a zero t as the host's `/` does
alu_divmod_unguarded(c) ==
    IF c.t # 0
    THEN [c EXCEPT !.tp = c.n \div c.t, !.t = c.n % c.t, !.n = c.n % c.t]
    ELSE Fault(c)

\* 25 => if t != 0 { tp = n / t; t = n % t; n = t } else { pc = 1; tp = 10 }
alu_divmod(c) ==
    IF c.t # 0
    THEN [c EXCEPT !.tp = c.n \div c.t, !.t = c.n % c.t, !.n = c.n % c.t]
    ELSE [c EXCEPT !.pc = 1, !.tp = 10]

\* 26 => the same on (n as i16), (t as i16); i16::MIN / -1 aborts the process
\* in every build.
alu_sdivmod(c) ==
    IF c.t # 0
    THEN IF AsI16(c.n) = 0 - 32768 /\ AsI16(c.t) = 0 - 1
         THEN Fault(c)
         ELSE LET r == AsU16(TruncRem(AsI16(c.n), AsI16(c.t)))
              IN  [c EXCEPT !.tp = AsU16(TruncDiv(AsI16(c.n), AsI16(c.t))),
                            !.t = r, !.n = r]
    ELSE [c EXCEPT !.pc = 1, !.tp = 10]

\* The ALU operation `alu` (the `match alu`), entered with tp = t, n = m[sp]
\* and pc already advanced.  A set: one result for each outcome the
\* environment or the build allows.
alu_op(alu, c) ==
    LET T == c.t
        N == c.n
        B(cond) == IF cond THEN 65535 ELSE 0
    IN
    CASE alu = 0  -> {c}
      [] alu = 1  -> {[c EXCEPT !.tp = N]}
      [] alu = 2  -> {IF InCore(c.rp) THEN [c EXCEPT !.tp = Cell(c.m, c.rp)] ELSE Fault(c)}
      [] alu = 3  -> {[c EXCEPT !.tp = Cell(c.m, Shr(T, 1))]}
      [] alu = 4  ->
            LET m1 == Store(c.m, Shr(T, 1), N)
            IN  {IF a.fault \/ ~InCore(a.v)
                 THEN [c EXCEPT !.m = m1, !.fault = TRUE, !.profile = a.profile]
                 ELSE [c EXCEPT !.m = m1, !.sp = a.v, !.tp = Cell(m1, a.v),
                                !.profile = a.profile]
                   : a \in Dec(c.sp, c.profile)}
      [] alu = 5  -> {alu_add(c)}
      [] alu = 6  -> {alu_mul(c)}
      [] alu = 7  -> {[c EXCEPT !.tp = BitAnd(c.tp, N)]}
      [] alu = 8  -> {[c EXCEPT !.tp = BitOr(c.tp, N)]}
      [] alu = 9  -> {[c EXCEPT !.tp = BitXor(c.tp, N)]}
      [] alu = 10 -> {[c EXCEPT !.tp = BitNot(T)]}
      [] alu = 11 -> {alu_dec(c)}
      [] alu = 12 -> {[c EXCEPT !.tp = B(T = 0)]}
      [] alu = 13 -> {[c EXCEPT !.tp = B(T = N)]}
      [] alu = 14 -> {[c EXCEPT !.tp = B(N < T)]}
      [] alu = 15 -> {[c EXCEPT !.tp = B(AsI16(N) < AsI16(T))]}
      [] alu = 16 ->
            {[c EXCEPT !.tp = a.v, !.fault = a.fault, !.profile = a.profile]
               : a \in Checked(Shr(N, T % 16), T >= 16, c.profile)}
      [] alu = 17 ->
            {[c EXCEPT !.tp = a.v, !.fault = a.fault, !.profile = a.profile]
               : a \in Checked(Shl(N, T % 16), T >= 16, c.profile)}
      [] alu = 18 -> {[c EXCEPT !.tp = Shl(c.sp, 1)]}
      [] alu = 19 -> {[c EXCEPT !.tp = Shl(c.rp, 1)]}
      [] alu = 20 -> {[c EXCEPT !.sp = Shr(T, 1)]}
      [] alu = 21 -> {[c EXCEPT !.rp = Shr(T, 1), !.tp = N]}
      [] alu = 22 ->
            {[c EXCEPT !.tp = o[2].val, !.blockfile = o[2].file, !.fault = o[2].fault,
                       !.env = o[2].res,
                       !.block = IF o[1] THEN "some" ELSE "none"]
               : o \in UNION {{<<named, r>> :
                                 r \in save_file(c.core, named, c.blockfile,
                                                 Shr(N, 1), Shr(T + 1, 1) % U16)}
                              : named \in IF c.block = "unread" THEN BOOLEAN
                                          ELSE {c.block = "some"}}}
      [] alu = 23 ->
            {[c EXCEPT !.tp = o.val, !.output = o.snk, !.fault = o.fault, !.env = o.res]
               : o \in fputc(c.output, T % 256)}
      [] alu = 24 ->
            {[c EXCEPT !.tp = o.val, !.input = o.rd, !.fault = o.fault, !.env = o.res]
               : o \in fgetc(c.input)}
      [] alu = 25 -> {alu_divmod(c)}
      [] alu = 26 -> {alu_sdivmod(c)}
      [] alu = 27 -> {[c EXCEPT !.halt = TRUE]}
      [] OTHER    -> {c}

\* alu_flags, with T->R and T->N storing the new top of stack
alu_flags_store_tp(inst, c) ==
    LET sp1 == (c.sp + DELTA[(inst % 4) + 1]) % U16
        rp1 == (c.rp - DELTA[((inst \div 4) % 4) + 1]) % U16
        tp1 == IF HasBit(inst, 32) THEN c.n ELSE c.tp
        tr  == HasBit(inst, 64)
        tn  == HasBit(inst, 128)
        m1  == IF tr /\ InCore(rp1) THEN Store(c.m, rp1, tp1) ELSE c.m
        m2  == IF tn /\ InCore(sp1) THEN Store(m1, sp1, tp1) ELSE m1
    IN  IF (tr /\ ~InCore(rp1)) \/ (tn /\ ~InCore(sp1))
        THEN [c EXCEPT !.sp = sp1, !.rp = rp1, !.m = m1, !.fault = TRUE]
        ELSE [c EXCEPT !.sp = sp1, !.rp = rp1, !.m = m2, !.t = tp1, !.tp = tp1]

\* After the match: the stack pointer deltas and the N->T, T->R, T->N bits,
\* then t = tp.
alu_flags(inst, c) ==
    LET sp1 == (c.sp + DELTA[(inst % 4) + 1]) % U16
        rp1 == (c.rp - DELTA[((inst \div 4) % 4) + 1]) % U16
        tp1 == IF HasBit(inst, 32) THEN c.n ELSE c.tp
        tr  == HasBit(inst, 64)
        tn  == HasBit(inst, 128)
        m1  == IF tr /\ InCore(rp1) THEN Store(c.m, rp1, c.t) ELSE c.m
        m2  == IF tn /\ InCore(sp1) THEN Store(m1, sp1, c.t) ELSE m1
    IN  IF (tr /\ ~InCore(rp1)) \/ (tn /\ ~InCore(sp1))
        THEN [c EXCEPT !.sp = sp1, !.rp = rp1, !.m = m1, !.fault = TRUE]
        ELSE [c EXCEPT !.sp = sp1, !.rp = rp1, !.m = m2, !.t = tp1, !.tp = tp1]

\* alu, leaving the loop after the deltas and flags
alu_halt_after_flags(inst, c) ==
    IF ~InCore(c.sp) \/ (HasBit(inst, 16) /\ ~InCore(c.rp))
    THEN {Fault(c)}
    ELSE LET c0 == [c EXCEPT !.tp = c.t, !.n = Cell(c.m, c.sp),
                             !.pc = IF HasBit(inst, 16)
                                    THEN Shr(Cell(c.m, c.rp), 1) ELSE c.pc + 1]
         IN  {IF r.fault THEN r ELSE alu_flags(inst, r)
                : r \in alu_op((inst \div 256) % 32, c0)}

\* The ALU branch: tp = t; n = m[sp]; pc from the R->PC bit; the operation;
\* the flags unless the operation left the loop.
alu(inst, c) ==
    IF ~InCore(c.sp) \/ (HasBit(inst, 16) /\ ~InCore(c.rp))
    THEN {Fault(c)}
    ELSE LET c0 == [c EXCEPT !.tp = c.t, !.n = Cell(c.m, c.sp),
                             !.pc = IF HasBit(inst, 16)
                                    THEN Shr(Cell(c.m, c.rp), 1) ELSE c.pc + 1]
         IN  {IF r.fault \/ r.halt THEN r ELSE alu_flags(inst, r)
                : r \in alu_op((inst \div 256) % 32, c0)}

------------------------------------------------------------------------------
\* run, as actions: the call, one action per instruction family, the fetch
\* outside the core

\* VM::header and VM::csv write only while tracing is on.
HeaderRow == [kind |-> "header"]
CsvRow(vm, c, inst) ==
    [kind |-> "row", pc |-> c.pc, inst |-> inst, t |-> c.t, sp |-> c.sp, rp |-> c.rp,
     time |-> vm.count, unit |-> IF vm.count = 0 THEN "s" ELSE "ns"]

header(vm, log) == IF vm.tracing THEN Append(log, HeaderRow) ELSE log
csv(vm, log, c, inst) == IF vm.tracing THEN Append(log, CsvRow(vm, c, inst)) ELSE log
Counted(vm) == IF vm.tracing THEN [vm EXCEPT !.count = vm.count + 1] ELSE vm

\* run_entry, with the header written to `output`
run_entry_header_to_output(vm, log, out) ==
    [pc |-> vm.pc, rp |-> vm.rp, sp |-> vm.sp, t |-> vm.t, m |-> vm.core,
     stderr |-> log,
     output |-> IF vm.tracing
                THEN [out EXCEPT !.len = out.len + 1, !.data = PutByte(out.data, out.len, 34)]
                ELSE out]

\* run, up to the loop: the locals, and VM::header(self, &mut stderr())
run_entry(vm, log, out) ==
    [pc |-> vm.pc, rp |-> vm.rp, sp |-> vm.sp, t |-> vm.t, m |-> vm.core,
     stderr |-> header(vm, log),
     output |-> out]

\* The branch of the loop's if / else if chain that `inst` takes
Execute(inst, c) ==
    IF inst >= 32768 THEN literal(inst, c)
    ELSE CASE Family(inst) = 3 -> alu(inst, c)
           [] Family(inst) = 2 -> call(inst, c)
           [] Family(inst) = 1 -> zbranch(inst, c)
           [] OTHER            -> branch(inst, c)

\* After an iteration with result r: where the process is, the VM (csv has
\* counted; leaving the loop writes the registers back), what run returned.
Ctl(r) == IF r.fault THEN "panic" ELSE IF r.halt THEN "idle" ELSE "run"
\* After, with run's core written back too
After_with_core(vm, r) ==
    IF r.halt /\ ~r.fault
    THEN [Counted(vm) EXCEPT !.pc = r.pc, !.rp = r.rp, !.sp = r.sp, !.t = r.t, !.core = r.m]
    ELSE Counted(vm)
After(vm, r) ==
    IF r.halt /\ ~r.fault
    THEN [Counted(vm) EXCEPT !.pc = r.pc, !.rp = r.rp, !.sp = r.sp, !.t = r.t]
    ELSE Counted(vm)
Returns(old, r) == IF r.halt /\ ~r.fault THEN Ret("run", AsI16(r.t)) ELSE old

\* r and r2 are results under the same doings of the environment: the same
\* build and block name, the same outcome of the cycle's file creation, read
\* or write, the same byte read.
SameEnv(r, r2) ==
    /\ r2.profile = r.profile
    /\ r2.block = r.block
    /\ r2.env = r.env
    /\ r2.input = r.input

\* The second VM's iteration, under the environment of the first VM's result
\* r; "apart" when it has no such iteration.
TwinCycle(r) ==
    IF twin.ctl # "run" THEN twin
    ELSE IF ~InCore(twin.pc) THEN [twin EXCEPT !.ctl = "panic"]
    ELSE LET inst2 == Cell(twin.m, twin.pc)
             S == {r2 \in Execute(inst2, TwinCur) : SameEnv(r, r2)}
         IN  IF S = {} THEN [twin EXCEPT !.ctl = "apart"]
             ELSE LET r2 == CHOOSE x \in S : TRUE
                  IN  [twin EXCEPT
                         !.pc = r2.pc, !.rp = r2.rp, !.sp = r2.sp, !.t = r2.t, !.m = r2.m,
                         !.input = r2.input, !.output = r2.output,
                         !.blockfile = r2.blockfile,
                         !.stderr = csv(twin.vm, twin.stderr, TwinCur, inst2),
                         !.vm = After(twin.vm, r2),
                         !.ctl = Ctl(r2),
                         !.ret = Returns(twin.ret, r2)]

RunBegin ==
    /\ ctl = "idle"
    /\ runs + loads < MaxRuns
    /\ LET e == run_entry(self, stderr, TtySink)
       IN  /\ pc' = e.pc /\ rp' = e.rp /\ sp' = e.sp /\ t' = e.t
           /\ m' = e.m
           /\ stderr' = e.stderr
           /\ output' = e.output
    /\ ctl' = "run"
    /\ cycles' = 0
    /\ runs' = runs + 1
    /\ prev' = NoPrev
    /\ block' = "unread"
    /\ input' = TtyReader
    /\ twin' = IF twin.ctl # "idle" THEN twin
               ELSE LET e == run_entry(twin.vm, twin.stderr, TtySink)
                    IN  [twin EXCEPT !.pc = e.pc, !.rp = e.rp, !.sp = e.sp, !.t = e.t,
                                     !.m = e.m, !.stderr = e.stderr, !.output = e.output,
                                     !.input = TtyReader, !.ctl = "run"]
    /\ UNCHANGED <<self, ret, loads, program, blockfile, image, saved, profile>>

\* One iteration of the loop, given the instruction fetched and the result r
\* of its branch.  Leaving the loop writes the registers back and returns
\* (t as i16) as i32.
Cycle(inst, r) ==
    /\ cycles' = cycles + 1
    /\ prev' = [pc |-> pc, inst |-> inst, t |-> t, sp |-> sp, rp |-> rp, m |-> m]
    /\ stderr' = csv(self, stderr, Cur, inst)
    /\ pc' = r.pc /\ rp' = r.rp /\ sp' = r.sp /\ t' = r.t /\ m' = r.m
    /\ input' = r.input /\ output' = r.output /\ blockfile' = r.blockfile
    /\ block' = r.block /\ profile' = r.profile
    /\ ctl' = Ctl(r)
    /\ self' = After(self, r)
    /\ ret' = Returns(ret, r)
    /\ twin' = TwinCycle(r)
    /\ UNCHANGED <<runs, loads, program, image, saved>>

Fetching == ctl = "run" /\ cycles < MaxCycles /\ InCore(pc)
Fetched  == Cell(m, pc)

Literal ==
    /\ Fetching
    /\ Fetched >= 32768
    /\ \E r \in literal(Fetched, Cur) : Cycle(Fetched, r)

Alu ==
    /\ Fetching
    /\ Fetched < 32768 /\ Family(Fetched) = 3
    /\ \E r \in alu(Fetched, Cur) : Cycle(Fetched, r)

Call ==
    /\ Fetching
    /\ Fetched < 32768 /\ Family(Fetched) = 2
    /\ \E r \in call(Fetched, Cur) : Cycle(Fetched, r)

ZBranch ==
    /\ Fetching
    /\ Fetched < 32768 /\ Family(Fetched) = 1
    /\ \E r \in zbranch(Fetched, Cur) : Cycle(Fetched, r)

Branch ==
    /\ Fetching
    /\ Family(Fetched) = 0
    /\ \E r \in branch(Fetched, Cur) : Cycle(Fetched, r)

\* let instruction = m[pc as usize] with pc outside the core
FetchFault ==
    /\ ctl = "run"
    /\ ~InCore(pc)
    /\ ctl' = "panic"
    /\ twin' = IF twin.ctl # "run" THEN twin
               ELSE [twin EXCEPT !.ctl = IF InCore(twin.pc) THEN "apart" ELSE "panic"]
    /\ UNCHANGED <<self, pc, rp, sp, t, m, ret, cycles, runs, loads, prev, program, block,
                   input, output, blockfile, image, saved, stderr, profile>>

------------------------------------------------------------------------------
\* The programs run: the unit tests' (tests::run), over more literals, and an
\* instruction under test behind two literals that set N and T.

\* tests::literal
Lit(v) == v + 32768
AluWord(op, flags) == 24576 + 256 * op + flags
ZBranchTo(a) == 8192 + a
CallTo(a)    == 16384 + a
BranchTo(a)  == a

LitVals == {0, 1, 2, 55, 99, 16384, 31488, 32767}
\* <<N, T>> for the instruction under test; for a division under test
OperandPairs == {<<3, 5>>, <<7, 0>>, <<32767, 2>>, <<5, 32767>>}
DivPairs     == {<<3, 5>>, <<7, 0>>}
\* <<a, b>> for a division under test with N = !a and T = !b
InvertedPairs == {<<6, 1>>, <<32767, 0>>}

\* Every operation with T->N and N->T set and every choice of the other
\* flags and deltas; the divisions and the halt with every flag; every
\* operation with no flag.
ExchangeWords ==
    {AluWord(op, f) : op \in 0..31, f \in {g \in 0..255 : HasBit(g, 128) /\ HasBit(g, 32)}}
DivWords   == {AluWord(op, f) : op \in {25, 26}, f \in 0..255}
HaltWords  == {AluWord(27, f) : f \in 0..255}
PlainWords == {AluWord(op, 0) : op \in 0..31}
\* Words with R->PC set and RP delta index 3: every operation with no other
\* flag, and the no-op with every choice of the other flags and the SP delta.
ReturnWords ==
    {AluWord(op, 28) : op \in 0..31}
    \cup {AluWord(0, f) : f \in {g \in 0..255 : HasBit(g, 16) /\ (g \div 4) % 4 = 3}}

Programs ==
    {<<Lit(v), BYE>> : v \in LitVals}
    \cup {<<Lit(v), DEC, BYE>> : v \in LitVals}
    \cup {<<Lit(a), Lit(b), ADD, BYE>> : a \in LitVals, b \in LitVals}
    \cup {<<Lit(o[1]), Lit(o[2]), w, BYE>> : o \in OperandPairs, w \in PlainWords}
    \cup {<<Lit(o[1]), Lit(o[2]), w, BYE>> : o \in DivPairs, w \in DivWords}
    \cup {<<Lit(3), Lit(5), w, BYE>> : w \in ExchangeWords \cup HaltWords}
    \cup {<<Lit(o[1]), AluWord(10, 0), Lit(o[2]), AluWord(10, 0), w, BYE>> :
             o \in InvertedPairs, w \in DivWords \cap PlainWords}
    \* conditional branches, taken and not, with SP0 + 2 and with 0 in SP
    \cup {<<Lit(a), Lit(b), ZBranchTo(x), BYE, BYE>> :
             a \in {0, 7}, b \in {0, 1, 32767}, x \in {0, 3, 4, 8191}}
    \cup {<<Lit(a), AluWord(20, 0), ZBranchTo(x), BYE, BYE>> : a \in {0, 1}, x \in {3, 4}}
    \* a call and its return; branches
    \cup {<<CallTo(2), BYE, AluWord(0, 28)>>, <<BranchTo(2), BYE, Lit(5), BYE>>,
          <<BranchTo(0)>>}
    \* three literals and a block save of the two cells the first two pushed
    \cup {<<Lit(v), Lit(2 * (SP0 + 2)), Lit(2 * (SP0 + 4)), AluWord(22, 0), BYE>> :
             v \in {99}}
    \* emit and key
    \cup {<<Lit(65), AluWord(23, 0), BYE>>, <<AluWord(24, 0), BYE>>}
    \* a literal stored in cell 0x7fff and returned to
    \cup {<<Lit(0), DEC, AluWord(0, 64), AluWord(0, 16)>>}
    \* a call from cell 1 to a word that returns
    \cup {<<Lit(a), CallTo(3), BYE, w>> : a \in {0, 6}, w \in ReturnWords}
    \* a literal pushed with SP = 0xffff, a call with RP = 0, a store with SP = 0
    \cup {<<Lit(0), AluWord(20, 3), Lit(5), BYE>>,
          <<Lit(0), AluWord(21, 0), CallTo(3), BYE>>,
          <<Lit(0), AluWord(20, 0), AluWord(4, 0), BYE>>}

Next ==
    \/ (ctl = "idle" /\ program = << >> /\ \E p \in Programs : Install(p))
    \/ Reset
    \/ (runs = 0 /\ RunBegin)
    \/ Literal
    \/ Alu
    \/ Call
    \/ ZBranch
    \/ Branch
    \/ FetchFault

Spec == Init /\ [][Next]_vars

------------------------------------------------------------------------------
\* The image codec's scenario: a VM is constructed, may have a program
\* installed, be saved, loaded and run.  Files as long as the core are loaded
\* into a VM that has neither run nor loaded before, as main does.

\* The byte sequence bs as the content of a file
FileOf(bs) ==
    [len |-> Len(bs),
     data |-> [p \in {q \in 0..(Len(bs) - 1) : bs[q + 1] # 0} |-> bs[p + 1]]]

ByteVals == {0, 255}
ShortFiles == {FileOf(bs) : bs \in UNION {[1..k -> ByteVals] : k \in 0..MaxStream}}

\* Files of 2 * CORE_SIZE - 1 and 2 * CORE_SIZE + 1 bytes, non-zero in their
\* first cell and around their last
LongFiles ==
    {[len |-> n,
      data |-> [p \in {0, 1, 2 * CORE_SIZE - 4, 2 * CORE_SIZE - 2, n - 1} |->
                   IF p = 1 THEN 18 ELSE 52]]
       : n \in {2 * CORE_SIZE - 1, 2 * CORE_SIZE + 1}}

\* A literal, a call, a conditional branch not taken and a branch, ending in
\* the halt with PC = 3, RP = RP0 - 1
Tour == <<Lit(1), CallTo(3), BYE, ZBranchTo(0), BranchTo(2)>>
ImagePrograms ==
    {Tour, <<Lit(99), BYE>>, <<Lit(0), DEC, AluWord(0, 64), AluWord(0, 16)>>}

\* The sizes of the sink handed to save
SinkCaps == {Unlimited, 3}

NextImage ==
    \/ (ctl = "idle" /\ program = << >> /\ \E p \in ImagePrograms : Install(p))
    \/ Reset
    \/ RunBegin
    \/ Literal
    \/ Alu
    \/ Call
    \/ ZBranch
    \/ Branch
    \/ FetchFault
    \/ \E cap \in SinkCaps : Save(cap)
    \/ \E f \in ShortFiles : Load(f.len, f.data)
    \/ (runs = 0 /\ loads = 0 /\ \E f \in LongFiles : Load(f.len, f.data))
    \/ (runs = 0 /\ loads = 0 /\ image # NoSink /\ Load(image.len, image.data))

SpecImage == Init /\ [][NextImage]_vars

------------------------------------------------------------------------------
\* The calls of the VM's interface in any order: trace, reset, load of a
\* short file and run, on the default image or with a program installed.

NextCalls ==
    \/ (ctl = "idle" /\ program = << >> /\ \E p \in ImagePrograms : Install(p))
    \/ \E b \in BOOLEAN : Trace(b)
    \/ Reset
    \/ RunBegin
    \/ Literal
    \/ Alu
    \/ Call
    \/ ZBranch
    \/ Branch
    \/ FetchFault
    \/ \E f \in ShortFiles : Load(f.len, f.data)

SpecCalls == Init /\ [][NextCalls]_vars

------------------------------------------------------------------------------
\* Runs with tracing switched on and off, and a run after a run: every
\* operation with no flag, the halt with every flag, emit, key, block save,
\* the tour, and the programs that leave the core.

TracePrograms ==
    {<<Lit(o[1]), Lit(o[2]), w, BYE>> : o \in OperandPairs, w \in PlainWords}
    \cup {<<Lit(3), Lit(5), w, BYE>> : w \in HaltWords}
    \cup {<<Lit(65), AluWord(23, 0), BYE>>, <<AluWord(24, 0), BYE>>}
    \cup {<<Lit(99), Lit(2 * (SP0 + 2)), Lit(2 * (SP0 + 4)), AluWord(22, 0), BYE>>}
    \cup {Tour, <<BranchTo(0)>>}
    \cup {<<Lit(0), DEC, AluWord(0, 64), AluWord(0, 16)>>,
          <<Lit(0), AluWord(20, 3), Lit(5), BYE>>,
          <<Lit(0), AluWord(21, 0), CallTo(3), BYE>>,
          <<Lit(0), AluWord(20, 0), AluWord(4, 0), BYE>>}

NextTrace ==
    \/ (ctl = "idle" /\ program = << >> /\ \E p \in TracePrograms : Install(p))
    \/ \E b \in BOOLEAN : Trace(b)
    \/ Reset
    \/ RunBegin
    \/ Literal
    \/ Alu
    \/ Call
    \/ ZBranch
    \/ Branch
    \/ FetchFault

SpecTrace == Init /\ [][NextTrace]_vars

------------------------------------------------------------------------------
\* Block save on its own: save_block applied once, with any start and
\* length, to the core of a VM as constructed, with a program installed, or
\* loaded from a file as long as the core.

BlockEnds == {0, 1, 2, 3, CORE_SIZE - 1, CORE_SIZE, CORE_SIZE + 1, 65535}

NextBlock ==
    \/ (ctl = "idle" /\ program = << >> /\ blockfile = NoSink
            /\ \E p \in ImagePrograms : Install(p))
    \/ (loads = 0 /\ blockfile = NoSink /\ \E f \in LongFiles : Load(f.len, f.data))
    \/ \E cap \in SinkCaps : \E start \in BlockEnds : \E length \in BlockEnds :
           SaveBlock(cap, start, length)

SpecBlock == Init /\ [][NextBlock]_vars

------------------------------------------------------------------------------
\* Properties

\* The first run of the installed program: it starts from the registers
\* VM::new leaves, PC = 0, T = 0, SP = SP0, RP = RP0.
FirstRun == runs = 1 /\ loads = 0
Returned == ctl = "idle" /\ ret.fn = "run"
\* An iteration of run's loop has just ended and the loop goes on; prev is
\* the state it started from.
Stepped  == ctl = "run" /\ cycles >= 1

\* C1: for a literal v, the program [v | 0x8000, 0x7b00] run from the reset
\* registers does not abort, leaves the loop in its second cycle and returns
\* v: after the first cycle T = v, and run returns (v as i16) as i32 = v with
\* PC = 2, SP = SP0 + 1, RP = RP0.
C1_LiteralHalt ==
    (FirstRun /\ Len(program) = 2 /\ program[1] >= 32768 /\ program[2] = BYE) =>
        LET v == program[1] - 32768
        IN  /\ ctl # "panic"
            /\ ctl = "run" => cycles <= 1
            /\ (ctl = "run" /\ cycles = 1) => t = v /\ pc = 1
            /\ ctl = "idle" =>
                  /\ cycles = 2
                  /\ ret = Ret("run", v)
                  /\ ret.val >= 0
                  /\ t = v /\ pc = 2 /\ sp = SP0 + 1 /\ rp = RP0

C1_Witness ==
    /\ FirstRun /\ Returned
    /\ program = <<Lit(32767), BYE>>
    /\ ret.val = 32767
    /\ cycles = 2

\* C2: for literals a and b, [LIT(a), LIT(b), ADD, HALT] run from the reset
\* registers returns the sign extension of (a + b) mod 2^16, and the ADD
\* cycle leaves SP one less than it found it.
C2_AddProgram ==
    (FirstRun /\ Len(program) = 4 /\ program[1] >= 32768 /\ program[2] >= 32768
        /\ program[3] = ADD /\ program[4] = BYE) =>
        LET a == program[1] - 32768
            b == program[2] - 32768
        IN  /\ ctl # "panic"
            /\ (ctl = "run" /\ cycles = 3) =>
                  /\ prev.inst = ADD
                  /\ sp = prev.sp - 1
                  /\ t = (a + b) % U16
            /\ ctl = "idle" =>
                  /\ cycles = 4
                  /\ ret = Ret("run", AsI16((a + b) % U16))

C2_Witness ==
    /\ FirstRun /\ Returned
    /\ program = <<Lit(32767), Lit(32767), ADD, BYE>>
    /\ ret.val = 0 - 2

\* C3: for a literal v, [LIT(v), DEC, HALT] run from the reset registers
\* returns the sign extension of (v - 1) mod 2^16 (-1 for v = 0, with
\* T = 0xffff), and the DEC cycle leaves SP, RP and the core as they were.
C3_DecProgram ==
    (FirstRun /\ Len(program) = 3 /\ program[1] >= 32768
        /\ program[2] = DEC /\ program[3] = BYE) =>
        LET v == program[1] - 32768
        IN  /\ ctl # "panic"
            /\ (ctl = "run" /\ cycles = 2) =>
                  /\ prev.inst = DEC
                  /\ t = (v - 1) % U16
                  /\ v = 0 => t = 65535
                  /\ sp = prev.sp /\ rp = prev.rp
                  /\ Cell(m, sp) = Cell(prev.m, prev.sp)
                  /\ m = prev.m
            /\ ctl = "idle" =>
                  /\ cycles = 3
                  /\ ret = Ret("run", AsI16((v - 1) % U16))
                  /\ v = 0 => ret.val = 0 - 1

C3_Witness ==
    /\ FirstRun /\ Returned
    /\ program = <<Lit(0), DEC, BYE>>
    /\ t = 65535
    /\ ret.val = 0 - 1

\* The cycle that has just ended (or aborted) ran an ALU word / a conditional
\* branch; its operation, and the T and N it started with.
PrevIsAlu     == prev.inst < 32768 /\ Family(prev.inst) = 3
PrevIsZBranch == prev.inst < 32768 /\ Family(prev.inst) = 1
PrevOp == (prev.inst \div 256) % 32
OldT   == prev.t
OldN   == Cell(prev.m, prev.sp)
\* SP and RP after the word's delta fields
PrevSpDelta == (prev.sp + DELTA[(prev.inst % 4) + 1]) % U16
PrevRpDelta == (prev.rp - DELTA[((prev.inst \div 4) % 4) + 1]) % U16

Exchanging ==
    /\ Stepped /\ PrevIsAlu
    /\ HasBit(prev.inst, 128) /\ HasBit(prev.inst, 32)
    /\ PrevOp # 27

\* C4 as stated: after an ALU word with T->N and N->T set, whatever its
\* operation (other than halt) and deltas, T is the old N and core[SP] is
\* the old T.
C4_Exchange == Exchanging => t = OldN /\ Cell(m, sp) = OldT

\* C4, amended: after an ALU word with T->N and N->T set, T is the old N and
\* core[SP] is the old T for every operation other than halt, 5, 6 and a
\* division (25, 26) by a non-zero T.  After 5 and 6, T is the low word of
\* the sum or product of the old T and N and core[SP] is the old T; after a
\* division by a non-zero T, both T and core[SP] are the remainder.
C4_ExchangeAmended ==
    Exchanging =>
        CASE PrevOp = 5 -> t = (OldT + OldN) % U16 /\ Cell(m, sp) = OldT
          [] PrevOp = 6 -> t = (OldT * OldN) % U16 /\ Cell(m, sp) = OldT
          [] PrevOp = 25 /\ OldT # 0 ->
                t = OldN % OldT /\ Cell(m, sp) = OldN % OldT
          [] PrevOp = 26 /\ OldT # 0 ->
                LET r == AsU16(TruncRem(AsI16(OldN), AsI16(OldT)))
                IN  t = r /\ Cell(m, sp) = r
          [] OTHER -> t = OldN /\ Cell(m, sp) = OldT

C4_Witness ==
    /\ Exchanging
    /\ prev.inst = AluWord(7, 161)
    /\ OldN = 3 /\ OldT = 5
    /\ sp = prev.sp + 1
    /\ t = 3 /\ Cell(m, sp) = 5

\* A division (25, 26) by a zero T has just run, to its end or to an abort.
DivTrap ==
    /\ cycles >= 1 /\ ctl \in {"run", "panic"}
    /\ PrevIsAlu /\ PrevOp \in {25, 26} /\ OldT = 0

\* What the deltas and the T->R, T->N bits make of the core when T is 0.
DivTrapCore ==
    LET m1 == IF HasBit(prev.inst, 64) THEN Store(prev.m, PrevRpDelta, 0) ELSE prev.m
    IN  IF HasBit(prev.inst, 128) THEN Store(m1, PrevSpDelta, 0) ELSE m1

\* C5 as stated: a division by a zero T never aborts, whatever the word's
\* flags and deltas; it leaves PC = 1 and T = 10, with the deltas and the
\* T->R, T->N stores applied.
C5_DivTrap ==
    DivTrap =>
        /\ ctl = "run"
        /\ pc = 1 /\ t = 10
        /\ sp = PrevSpDelta /\ rp = PrevRpDelta
        /\ m = DivTrapCore

\* C5, amended: a division by a zero T aborts exactly when the word indexes
\* outside the core (N read at SP, the return address read at RP for R->PC,
\* the T->R store at the new RP, the T->N store at the new SP); otherwise it
\* leaves PC = 1 (also with R->PC set), T = 10 unless N->T is set and then
\* T = old N, and the deltas and the T->R, T->N stores applied.
C5_DivTrapAmended ==
    DivTrap =>
        LET outside ==
                \/ ~InCore(prev.sp)
                \/ HasBit(prev.inst, 16) /\ ~InCore(prev.rp)
                \/ HasBit(prev.inst, 64) /\ ~InCore(PrevRpDelta)
                \/ HasBit(prev.inst, 128) /\ ~InCore(PrevSpDelta)
        IN  /\ ctl = "panic" <=> outside
            /\ ctl = "run" =>
                  /\ pc = 1
                  /\ t = IF HasBit(prev.inst, 32) THEN OldN ELSE 10
                  /\ sp = PrevSpDelta /\ rp = PrevRpDelta
                  /\ m = DivTrapCore

C5_Witness ==
    /\ DivTrap /\ ctl = "run"
    /\ prev.inst = AluWord(26, 197)
    /\ pc = 1 /\ t = 10
    /\ sp = prev.sp + 1 /\ rp = prev.rp - 1

\* C6: after a conditional branch, SP is one less than before (modulo 2^16,
\* reached from SP = 0 only by a build whose arithmetic wraps), T is the
\* previous core[SP], PC is inst & 0x1fff when the previous T was 0 and the
\* previous PC + 1 otherwise, and RP and the core are unchanged.
C6_ZBranch ==
    (Stepped /\ PrevIsZBranch) =>
        /\ sp = (prev.sp - 1) % U16
        /\ prev.sp = 0 => profile = "wrapping"
        /\ t = OldN
        /\ pc = IF OldT = 0 THEN prev.inst % 8192 ELSE prev.pc + 1
        /\ rp = prev.rp
        /\ m = prev.m

C6_Witness ==
    /\ Stepped /\ PrevIsZBranch
    /\ prev.inst = ZBranchTo(4) /\ prev.pc = 2
    /\ OldT = 0 /\ OldN = 7
    /\ pc = 4 /\ t = 7 /\ sp = prev.sp - 1

\* Opcode 22 has just returned 0 to T after writing the block file; the
\* cells it was asked for are First22 .. Last22 - 1.
Saved22 ==
    /\ Stepped /\ PrevIsAlu /\ PrevOp = 22 /\ ~HasBit(prev.inst, 32)
    /\ block = "some" /\ blockfile.kind = "file" /\ t = 0
First22 == Shr(OldN, 1)
Last22  == Shr(OldT + 1, 1) % U16

\* C7: the block file opcode 22 wrote holds, low byte first, the cells of
\* the running core as they were when the opcode ran, the stores of earlier
\* instructions of the run included.
C7_SavesRunningCore ==
    Saved22 =>
        \A i \in First22 .. (Last22 - 1) :
            /\ ByteAt(blockfile, 2 * (i - First22)) = Cell(prev.m, i) % 256
            /\ ByteAt(blockfile, 2 * (i - First22) + 1) = Cell(prev.m, i) \div 256

\* The run pushed 99 into cell SP0 + 2 and saved cells SP0 + 2, SP0 + 3: the
\* file's first byte is 0, the byte of the core run was called with.
C7_StaleBlock ==
    /\ Saved22
    /\ First22 = SP0 + 2 /\ Last22 = SP0 + 4
    /\ Cell(prev.m, SP0 + 2) = 99
    /\ Cell(self.core, SP0 + 2) = 0
    /\ blockfile.len = 4
    /\ ByteAt(blockfile, 0) = 0

\* load has just returned, and what it read were the bytes save wrote to a
\* sink that took them all.
LoadedSaved ==
    /\ ctl = "idle" /\ ret.fn = "load"
    /\ image.kind = "file" /\ image.cap = Unlimited
    /\ input.kind = "file" /\ input.len = image.len /\ input.data = image.data

\* C8: save writes CORE_SIZE cells, each low byte then high byte, and load of
\* those bytes returns CORE_SIZE and leaves the core cell for cell what it was
\* when it was saved, whatever the core held when load was called.
C8_RoundTrip ==
    /\ (image.kind = "file" /\ image.cap = Unlimited) =>
          /\ image.len = 2 * CORE_SIZE
          /\ \A i \in (DOMAIN saved) \cup {p \div 2 : p \in DOMAIN image.data} :
                /\ ByteAt(image, 2 * i) = Cell(saved, i) % 256
                /\ ByteAt(image, 2 * i + 1) = Cell(saved, i) \div 256
    /\ LoadedSaved =>
          /\ ret = Ret("load", CORE_SIZE)
          /\ self.core = saved

\* The default image was saved, a program installed over it, and the load
\* brought the saved core back.
C8_Witness ==
    /\ LoadedSaved
    /\ program = <<Lit(99), BYE>>
    /\ Cell(saved, 0) = BYE
    /\ Cell(self.core, 0) = BYE /\ Cell(self.core, 1) = BYE
    /\ ret.val = CORE_SIZE

\* C9: load of a stream of L bytes leaves PC = 0, T = 0, SP = 0x2200,
\* RP = 0x7fff, returns min(L div 2, CORE_SIZE), stores
\* (byte[2i+1] << 8) | byte[2i] in every cell i below that count, and leaves
\* every other cell, the one a lone last byte belongs to among them, as it
\* was.
C9_Load ==
    [][loads' = loads + 1 =>
          LET L == input'.len
              n == Min(L \div 2, CORE_SIZE)
          IN  /\ self'.pc = 0 /\ self'.t = 0 /\ self'.sp = 8704 /\ self'.rp = 32767
              /\ ret' = Ret("load", n)
              /\ \A i \in (DOMAIN self.core) \cup (DOMAIN self'.core)
                             \cup {p \div 2 : p \in DOMAIN input'.data} :
                    Cell(self'.core, i) =
                        IF i < n
                        THEN ByteAt(input', 2 * i + 1) * 256 + ByteAt(input', 2 * i)
                        ELSE Cell(self.core, i)]_vars

\* Three bytes loaded after a run: one cell stored, the last byte dropped and
\* cell 1 still the default image's.
C9_Witness ==
    /\ ctl = "idle" /\ ret = Ret("load", 1)
    /\ runs = 1 /\ program = << >>
    /\ input.kind = "file" /\ input.len = 3
    /\ ByteAt(input, 0) = 0 /\ ByteAt(input, 1) = 255 /\ ByteAt(input, 2) = 255
    /\ Cell(self.core, 0) = 65280
    /\ Cell(self.core, 1) = BYE
    /\ self.pc = 0 /\ self.sp = SP0

\* VM::new, then load of a file shorter than the core, as main does.
ShortLoaded ==
    /\ ctl = "idle" /\ ret.fn = "load" /\ ret.val < CORE_SIZE
    /\ loads = 1 /\ runs = 0 /\ program = << >> /\ image = NoSink

\* C10: after VM::new and the load of a file shorter than the core, every
\* cell at or beyond the count load returned holds 0.
C10_TrailingZero ==
    ShortLoaded => \A i \in DOMAIN self.core : i < ret.val

\* An empty file loaded into a new VM: cell 0 holds the default image's word.
C10_StaleCell ==
    /\ ShortLoaded
    /\ input.len = 0 /\ ret.val = 0
    /\ Cell(self.core, 0) = BYE

\* C11: reset can be called whenever the VM is between calls, after any
\* sequence of load, run, trace and reset; it leaves PC = 0, RP = 0x7fff,
\* SP = 0x2200, T = 0 and every core cell as it was, and a second reset
\* changes nothing.
C11_Reset ==
    /\ [](ctl = "idle" => ENABLED Reset)
    /\ [][Reset =>
            /\ self'.pc = 0 /\ self'.rp = 32767 /\ self'.sp = 8704 /\ self'.t = 0
            /\ self'.core = self.core
            /\ self'.tracing = self.tracing /\ self'.count = self.count
            /\ ResetRegs(self') = self']_vars

\* Reset after a run that returned 99 with PC = 2, SP = SP0 + 1: run's locals
\* still show the registers it wrote back.
C11_Witness ==
    /\ Returned /\ runs = 1 /\ loads = 0
    /\ program = <<Lit(99), BYE>>
    /\ pc = 2 /\ sp = SP0 + 1 /\ t = 99
    /\ self.pc = 0 /\ self.rp = RP0 /\ self.sp = SP0 /\ self.t = 0
    /\ Cell(self.core, 0) = Lit(99)

\* A cycle of opcode 23 (emit) or 24 (key) with no flag, started with SP
\* inside the core, has just run to its end or to an abort: nothing in the
\* cycle but the byte I/O can fail.
CharIO ==
    /\ cycles >= 1 /\ ctl \in {"run", "panic"}
    /\ PrevIsAlu /\ PrevOp \in {23, 24} /\ prev.inst % 256 = 0
    /\ InCore(prev.sp) /\ InCore(pc)

\* C12: whatever the sink or the source does (a byte taken or given, a short
\* write, end of input, an I/O error), the cycle of opcode 23 or 24 completes
\* with PC, SP, RP as the instruction leaves them and T the byte or 0xffff,
\* and the loop goes on.
C12_InBand ==
    CharIO =>
        /\ ctl = "run"
        /\ pc = prev.pc + 1 /\ sp = prev.sp /\ rp = prev.rp /\ m = prev.m
        /\ t = 65535 \/ (PrevOp = 23 /\ t = OldT % 256) \/ (PrevOp = 24 /\ t \in InBytes)

\* The write of opcode 23 failed and the process aborted in the cycle.
C12_Abort ==
    /\ CharIO /\ ctl = "panic"
    /\ program = <<Lit(65), AluWord(23, 0), BYE>>
    /\ prev.inst = AluWord(23, 0) /\ OldT = 65
    /\ output.len = 0

\* The registers and core of a VM, without its trace flag and counter
Untraced(vm) == [pc |-> vm.pc, rp |-> vm.rp, sp |-> vm.sp, t |-> vm.t, core |-> vm.core]

\* C13: two VMs given the same core, registers, calls and environment, one
\* tracing and the other not, are at every moment in the same place (both
\* aborted or neither) with the same PC, T, SP, RP and core (run's and the
\* VM's own), have emitted the same
\* output bytes and written the same block file, and have returned the same
\* value; they differ only in the trace flag, the cycle counter and the trace
\* stream.
C13_TraceObservational ==
    /\ twin.vm.tracing = ~self.tracing
    /\ twin.ctl = ctl
    /\ twin.pc = pc /\ twin.t = t /\ twin.sp = sp /\ twin.rp = rp
    /\ twin.m = m
    /\ twin.output = output
    /\ twin.input = input
    /\ twin.blockfile = blockfile
    /\ twin.ret = ret
    /\ Untraced(twin.vm) = Untraced(self)

\* A traced run that emitted a byte and returned it, beside its untraced
\* twin: three trace rows after the header and three cycles counted on one
\* side, none on the other.
C13_Witness ==
    /\ Returned /\ runs = 1
    /\ program = <<Lit(65), AluWord(23, 0), BYE>>
    /\ self.tracing /\ self.count = 3 /\ Len(stderr) = 4
    /\ ~twin.vm.tracing /\ twin.vm.count = 0 /\ twin.stderr = << >>
    /\ output.len = 1 /\ ByteAt(output, 0) = 65
    /\ twin.output = output
    /\ ret = Ret("run", 65) /\ twin.ret = ret

\* A cycle of ALU operation 26 with T # 0 has just ended or aborted, in a
\* word that indexes the core inside it.
SignedDiv ==
    /\ cycles >= 1 /\ ctl \in {"run", "panic"}
    /\ PrevIsAlu /\ PrevOp = 26 /\ OldT # 0
    /\ InCore(prev.sp)
    /\ HasBit(prev.inst, 16) => InCore(prev.rp)
    /\ HasBit(prev.inst, 64) => InCore(PrevRpDelta)
    /\ HasBit(prev.inst, 128) => InCore(PrevSpDelta)

\* C14 as stated: ALU operation 26 with any T # 0 and any N, N = 0x8000 with
\* T = 0xffff among them, never aborts: the cycle completes with the 16-bit
\* quotient of the signed operands as the new T, or their 16-bit remainder
\* when N->T is set.
C14_SignedDivision ==
    SignedDiv =>
        /\ ctl = "run"
        /\ t = IF HasBit(prev.inst, 32)
               THEN AsU16(TruncRem(AsI16(OldN), AsI16(OldT)))
               ELSE AsU16(TruncDiv(AsI16(OldN), AsI16(OldT)))

\* -32768 / -1: the process aborted in the division.
C14_Abort ==
    /\ SignedDiv /\ ctl = "panic"
    /\ prev.inst = AluWord(26, 0)
    /\ OldN = 32768 /\ OldT = 65535
    /\ program = <<Lit(32767), AluWord(10, 0), Lit(0), AluWord(10, 0), AluWord(26, 0), BYE>>

PrevIsLiteral == prev.inst >= 32768
PrevIsCall    == prev.inst < 32768 /\ Family(prev.inst) = 2

\* A cycle that steps a stack pointer over the end of its 16 bits, outside the
\* ALU's delta fields, has just ended or aborted.
LiteralAtTop == PrevIsLiteral /\ prev.sp = 65535
PopAtZero    == PrevIsZBranch /\ prev.sp = 0
StoreAtZero  == PrevIsAlu /\ PrevOp = 4 /\ prev.inst % 256 = 0 /\ prev.sp = 0
CallAtZero   == PrevIsCall /\ prev.rp = 0
StepsOver ==
    /\ cycles >= 1 /\ ctl \in {"run", "panic"}
    /\ LiteralAtTop \/ PopAtZero \/ StoreAtZero \/ CallAtZero

\* C15 as stated: every increment and decrement of SP and RP wraps modulo
\* 2^16 in every instruction family: a literal at SP = 0xffff leaves SP = 0,
\* a conditional branch or a store (operation 4) at SP = 0 leaves SP = 0xffff,
\* a call at RP = 0 leaves RP = 0xffff, and none of them aborts.
C15_Wraps ==
    StepsOver =>
        /\ ctl = "run"
        /\ LiteralAtTop => sp = 0
        /\ (PopAtZero \/ StoreAtZero) => sp = 65535
        /\ CallAtZero => rp = 65535

\* A build with overflow checks aborted in `sp += 1` of a literal.
C15_Overflow ==
    /\ StepsOver /\ LiteralAtTop /\ ctl = "panic"
    /\ profile = "checked"
    /\ program = <<Lit(0), AluWord(20, 3), Lit(5), BYE>>
    /\ prev.inst = Lit(5)

\* C16 as stated: whenever run is about to fetch an instruction, PC is
\* inside the core, 0 <= PC < 0x8000, whatever the core holds, an instruction
\* in cell 0x7fff that goes on to PC + 1 included.
C16_PcInCore == ctl = "run" => 0 <= pc /\ pc < CORE_SIZE

\* The literal in cell 0x7fff was executed, PC went on to 0x8000, and the
\* fetch from there aborted the process.
C16_FetchOutside ==
    /\ ctl = "panic" /\ pc = CORE_SIZE
    /\ prev.pc = CORE_SIZE - 1 /\ prev.inst = 65535 /\ t = 32767
    /\ program = <<Lit(0), DEC, AluWord(0, 64), AluWord(0, 16)>>

\* save_block has been called on a sink that accepts every write.
SavedBlock == ret.fn = "save_block" /\ ret.cap = Unlimited

\* The bytes of the k cells from `start` on, low byte first, as file content
CellBytes(core, start, k) ==
    LET at(q) == Cell(core, start + (q \div 2))
        byte(q) == IF q % 2 = 0 THEN at(q) % 256 ELSE at(q) \div 256
        qs == UNION {{2 * (i - start), 2 * (i - start) + 1} :
                        i \in {j \in DOMAIN core : j >= start /\ j - start < k}}
    IN  [q \in {x \in qs : byte(x) # 0} |-> byte(q)]

\* C17 as stated: for any start and length with start + length <= 0xffff
\* and a sink that accepts every write, save_block writes exactly the cells
\* start <= i < length in ascending order, low byte then high byte, and
\* returns Some(0); none when length <= start.  With start + length > 0xffff
\* it writes nothing and returns None.
C17_EndIndex ==
    SavedBlock =>
        LET k == IF ret.length > ret.start THEN ret.length - ret.start ELSE 0
        IN  IF ret.start + ret.length <= 65535
            THEN /\ ctl = "idle" /\ ret.some /\ ret.val = 0
                 /\ blockfile.len = 2 * k
                 /\ blockfile.data = CellBytes(self.core, ret.start, k)
            ELSE /\ ctl = "idle" /\ ~ret.some
                 /\ blockfile.len = 0

\* C17, amended: as stated when length <= 0x8000 or length <= start; when
\* start < length and length > 0x8000 (with start + length <= 0xffff),
\* save_block writes the cells start <= i < 0x8000 and then aborts the
\* process reading core[0x8000].
C17_EndIndexAmended ==
    SavedBlock =>
        LET over == ret.length > ret.start /\ ret.length > CORE_SIZE
            k == IF ret.length > ret.start
                 THEN Min(ret.length, CORE_SIZE) - ret.start ELSE 0
        IN  IF ret.start + ret.length <= 65535
            THEN /\ ctl = IF over THEN "panic" ELSE "idle"
                 /\ ~over => ret.some /\ ret.val = 0
                 /\ blockfile.len = 2 * k
                 /\ blockfile.data = CellBytes(self.core, ret.start, k)
            ELSE /\ ctl = "idle" /\ ~ret.some
                 /\ blockfile.len = 0

\* Cells 1 and 2 of the tour saved: the call word 0x4003 and the halt 0x7b00.
C17_Witness ==
    /\ SavedBlock /\ ctl = "idle"
    /\ program = Tour
    /\ ret.start = 1 /\ ret.length = 3 /\ ret.some /\ ret.val = 0
    /\ blockfile.len = 4
    /\ ByteAt(blockfile, 0) = 3 /\ ByteAt(blockfile, 1) = 64
    /\ ByteAt(blockfile, 2) = 0 /\ ByteAt(blockfile, 3) = 123

\* The cycle of a halt word (ALU operation 27) has just ended run or aborted.
HaltCycle == cycles >= 1 /\ ctl # "run" /\ PrevIsAlu /\ PrevOp = 27

\* C18: a word with ALU operation 27, whatever its T->N, T->R, N->T bits and
\* delta fields, ends run (given that SP, and RP when R->PC is set, index the
\* core for the reads that precede the operation) with T, SP, RP and every
\* core cell as they were when its cycle began; only PC has changed, to
\* PC + 1, or to core[RP] >> 1 when R->PC is set; run returns that T, sign
\* extended.
C18_Halt ==
    HaltCycle =>
        /\ (InCore(prev.sp) /\ (HasBit(prev.inst, 16) => InCore(prev.rp))) => ctl = "idle"
        /\ ctl = "idle" =>
              /\ t = prev.t /\ sp = prev.sp /\ rp = prev.rp
              /\ m = prev.m
              /\ pc = IF HasBit(prev.inst, 16) THEN Cell(prev.m, prev.rp) \div 2
                      ELSE prev.pc + 1
              /\ ret = Ret("run", AsI16(prev.t))

\* A halt word with every flag set and both deltas -1, after 3 and 5 were
\* pushed: run returned 5 with SP = SP0 + 2, RP = RP0, core[SP] = 3, and
\* PC = core[RP0] >> 1 = 0.
C18_Witness ==
    /\ HaltCycle /\ ctl = "idle"
    /\ program = <<Lit(3), Lit(5), AluWord(27, 255), BYE>>
    /\ prev.inst = AluWord(27, 255) /\ prev.pc = 2
    /\ t = 5 /\ sp = SP0 + 2 /\ rp = RP0 /\ pc = 0
    /\ Cell(m, SP0 + 2) = 3 /\ Cell(m, RP0) = 0
    /\ ret = Ret("run", 5)

\* C19: run works on a copy of the core.  A call of run starts from the VM's
\* registers and core; no step of run changes the VM's core or trace flag,
\* nor, before run returns, its registers; the return writes PC, RP, SP and
\* T back (the cycle counter follows the trace).  So whatever a program
\* stores, the VM afterwards has the halted program's registers with the
\* memory from before the run, and that is what a second run starts from.
C19_PrivateCopy ==
    [][/\ (ctl = "idle" /\ ctl' = "run") =>
              /\ m' = self.core
              /\ pc' = self.pc /\ rp' = self.rp /\ sp' = self.sp /\ t' = self.t
              /\ self' = self
       /\ ctl = "run" =>
              /\ self'.core = self.core
              /\ self'.tracing = self.tracing
              /\ self'.count = IF self.tracing /\ cycles' # cycles
                               THEN self.count + 1 ELSE self.count
              /\ ctl' = "idle" =>
                    /\ self'.pc = pc' /\ self'.rp = rp' /\ self'.sp = sp' /\ self'.t = t'
              /\ ctl' # "idle" =>
                    /\ self'.pc = self.pc /\ self'.rp = self.rp
                    /\ self'.sp = self.sp /\ self'.t = self.t]_vars

\* A second run has begun where the first halted (T = 5, SP = SP0 + 2, PC = 0)
\* on the memory from before the first: the 3 that the first run pushed into
\* its core[SP0 + 2] is not there.
C19_Witness ==
    /\ runs = 2 /\ ctl = "run" /\ cycles = 0
    /\ program = <<Lit(3), Lit(5), AluWord(27, 255), BYE>>
    /\ self.pc = 0 /\ self.sp = SP0 + 2 /\ self.t = 5 /\ self.rp = RP0
    /\ pc = 0 /\ sp = SP0 + 2 /\ t = 5
    /\ m = self.core /\ Cell(m, SP0 + 2) = 0 /\ Cell(m, 0) = Lit(3)
    /\ ret = Ret("run", 5)

\* A call from p with p + 1 < 0x8000 and RP in 1..0x7fff has just executed.
Called ==
    /\ Stepped /\ PrevIsCall
    /\ prev.pc + 1 < CORE_SIZE
    /\ prev.rp >= 1 /\ prev.rp < CORE_SIZE
\* What such a call leaves: RP one less, the byte address of p + 1 in
\* core[RP], PC at the target.
CallPushes ==
    /\ rp = prev.rp - 1
    /\ m = Store(prev.m, prev.rp - 1, 2 * (prev.pc + 1))
    /\ pc = prev.inst % 8192
    /\ sp = prev.sp /\ t = prev.t

\* An ALU word with R->PC set and RP delta index 3 has just executed, with RP
\* as a call from RP in 1..0x7fff left it and the byte address of a cell in
\* core[RP]; ReturnTo is that cell.
Returning ==
    /\ cycles >= 1 /\ ctl \in {"run", "idle"}
    /\ PrevIsAlu /\ HasBit(prev.inst, 16) /\ (prev.inst \div 4) % 4 = 3
    /\ prev.rp >= 0 /\ prev.rp < CORE_SIZE - 1
    /\ Cell(prev.m, prev.rp) % 2 = 0
ReturnTo == Cell(prev.m, prev.rp) \div 2

\* C20 as stated: a call at p pushes (p + 1) << 1 and jumps, and a later ALU
\* word with R->PC set and RP delta index 3, whatever its operation, finding
\* RP and core[RP] as the call left them, resumes at p + 1 with RP as before
\* the call.
C20_RoundTrip ==
    /\ Called => CallPushes
    /\ Returning => pc = ReturnTo /\ rp = prev.rp + 1

\* C20, amended: as stated for every operation but three: a division
\* (25, 26) by T = 0 resumes at cell 1, operation 21 leaves RP = (T >> 1) + 1,
\* and the halt (27) ends run with RP not incremented.
C20_RoundTripAmended ==
    /\ Called => CallPushes
    /\ Returning =>
          /\ pc = IF PrevOp \in {25, 26} /\ OldT = 0 THEN 1 ELSE ReturnTo
          /\ rp = IF PrevOp = 27 THEN prev.rp
                  ELSE IF PrevOp = 21 THEN ((OldT \div 2) + 1) % U16
                  ELSE prev.rp + 1

\* The call in cell 1 went to cell 3 with RP = RP0 - 1 and core[RP] = 4; the
\* word 0x601c there has resumed at cell 2 with RP = RP0.
C20_Witness ==
    /\ Returning /\ ctl = "run" /\ cycles = 3
    /\ program = <<Lit(6), CallTo(3), BYE, AluWord(0, 28)>>
    /\ prev.inst = AluWord(0, 28) /\ prev.pc = 3
    /\ prev.rp = RP0 - 1 /\ Cell(prev.m, RP0 - 1) = 4
    /\ pc = 2 /\ rp = RP0

==============================================================================
